---- MODULE Spec2Model ----
(***************************************************************************)
(* rapool (src/src/lib.rs): an async object pool.                          *)
(*                                                                         *)
(* PoolInner { objects: Vec<T>, pending: VecDeque<Waker> } sits behind a   *)
(* tokio Mutex.  Every access is a critical section of that mutex, so a    *)
(* handler is modelled as its lock attempt followed by its critical        *)
(* section; the state between the two is what a concurrent try_lock sees   *)
(* as contention.  Instances of T are numbered: 1..size are built by       *)
(* Pool::new, the k-th value moved in by take_or is size + k.              *)
(***************************************************************************)
EXTENDS Integers, Sequences, FiniteSets, TLC

\* ---- bounds of the model ------------------------------------------------
\* tasks that use the pool
NumTasks == 2
\* instances there can be in all: those Pool::new builds and those take_or moves in
MaxInst == 2
\* pending never holds more wakers than this: a take is only started while
\* there is room in pending for its waker
MaxPending == 2

Tasks == 1..NumTasks
Inst == 1..MaxInst

VARIABLES
    size,       \* the size argument of Pool::new
    objects,    \* PoolInner.objects: Vec<T>, the free instances
    pending,    \* PoolInner.pending: VecDeque<Waker>, a waker is its task
    lock,       \* the tokio Mutex: free, or its holder
    pc,         \* where each task is
    guards,     \* live PoolGuards: guards[i] = number of guards whose content is i
    releases,   \* release tasks spawned by drop that have not pushed yet
    borrowed,   \* number of values moved into guards by take_or
    fbLive,     \* instances whose take_or-built guard is still live
    last,       \* what the step that led here returned to its caller, if it returned
    fresh,      \* only uncontended try_take calls have run since Pool::new
    tries,      \* while fresh: [calls, successes] of try_take
    rt,         \* an acquire/release round trip nothing has interleaved with
    handoff,    \* a drop made while one take was suspended, and what followed it
    takesOnly   \* only take calls and their polls have run since Pool::new

vars == <<size, objects, pending, lock, pc, guards, releases, borrowed, fbLive,
          last, fresh, tries, rt, handoff, takesOnly>>

\* ---- helpers translated from the code ---------------------------------

Free == <<"free">>
HeldByTask(t) == <<"task", t>>
\* held by a release task that has pushed and woken, until its MutexGuard is dropped
ReleaseDone == <<"release">>

\* Pool::new: (0..size).map(|_| constructor()).collect()
\* (variants: the range 0..=size, and the range 1..size)
NewObjectsInclusive(n) == [k \in 1..(n + 1) |-> k]
NewObjectsShort(n) == [k \in 1..(n - 1) |-> k]
NewObjects(n) == [k \in 1..n |-> k]

\* Option::None, and Poll::Pending, as a returned value
None == 0

\* Vec::pop: the Option it returns and what it leaves in the vector
\* (variants: last() in place of pop(), a pop that spares the last element,
\* a pop that makes up a value when the vector is empty, remove(0))
PopKeep(objs) ==
    IF objs = <<>> THEN [value |-> None, rest |-> objs]
    ELSE [value |-> objs[Len(objs)], rest |-> objs]
PopUnlessLast(objs) ==
    IF Len(objs) <= 1 THEN [value |-> None, rest |-> objs]
    ELSE [value |-> objs[Len(objs)], rest |-> SubSeq(objs, 1, Len(objs) - 1)]
PopOrDefault(objs) ==
    IF objs = <<>> THEN [value |-> 1, rest |-> objs]
    ELSE [value |-> objs[Len(objs)], rest |-> SubSeq(objs, 1, Len(objs) - 1)]
PopFirst(objs) ==
    IF objs = <<>> THEN [value |-> None, rest |-> objs]
    ELSE [value |-> objs[1], rest |-> SubSeq(objs, 2, Len(objs))]
Pop(objs) ==
    IF objs = <<>> THEN [value |-> None, rest |-> objs]
    ELSE [value |-> objs[Len(objs)], rest |-> SubSeq(objs, 1, Len(objs) - 1)]

\* Vec::push (variants: pushing twice, not pushing)
PushTwice(objs, c) == Append(Append(objs, c), c)
PushNothing(objs, c) == objs
Push(objs, c) == Append(objs, c)

\* pending.push_back(cx.waker().clone()) (variant: push_front)
PushFront(q, t) == <<t>> \o q
PushBack(q, t) == Append(q, t)

\* Mutex::try_lock succeeds
TryLockOk == lock = Free

\* Waker::wake on the waker of task t: a task suspended in a take is polled
\* again; on any other task it has no effect on a take
Wake(pcs, t) == IF pcs[t] = "suspended" THEN [pcs EXCEPT ![t] = "scheduled"] ELSE pcs

\* pending.pop_front().map(|it| it.wake())
WakeFront(pcs, q) == IF q = <<>> THEN pcs ELSE Wake(pcs, Head(q))
\* (variant: pop_back in place of pop_front)
PopBack(q) == IF q = <<>> THEN q ELSE SubSeq(q, 1, Len(q) - 1)
PopFront(q) == IF q = <<>> THEN q ELSE Tail(q)

\* the value take_or builds its guard around when try_take gave nothing
FallbackValue == size + borrowed + 1

\* the number of guards, or of release tasks, over all instances
RECURSIVE SumTo(_, _)
SumTo(f, n) == IF n = 0 THEN 0 ELSE f[n] + SumTo(f, n - 1)
Count(f) == SumTo(f, MaxInst)

\* how many times x is in the sequence s
RECURSIVE OccursTo(_, _, _)
OccursTo(s, x, n) ==
    IF n = 0 THEN 0 ELSE (IF s[n] = x THEN 1 ELSE 0) + OccursTo(s, x, n - 1)
Occurs(s, x) == OccursTo(s, x, Len(s))

NoRT == [stage |-> "none"]
NoHandoff == [armed |-> FALSE, behind |-> FALSE, raced |-> FALSE]

\* live guards
Live == Count(guards)

\* instances carried by release tasks that have not pushed yet
InFlight == Count(releases)

\* every instance the pool has, wherever it is
Total == Len(objects) + Live + InFlight

\* how many places hold instance i: objects, guards, release tasks
Where(i) == Occurs(objects, i) + guards[i] + releases[i]

\* what a call returned (res), with what it met: whether its try_lock found
\* the lock held, whether objects was empty, and the instance count then
Ret(op, t, res) ==
    [op |-> op, task |-> t, res |-> res,
     contended |-> lock # HeldByTask(t), empty |-> objects = <<>>, total |-> Total]
\* a step that returns nothing to a caller: only the instance count it met
NoRet == [op |-> "none", total |-> Total]

\* a drop has returned to the code that let the guard go; locked: the pool
\* lock was held by some task at that time
Dropped == [op |-> "drop", locked |-> lock # Free, total |-> Total]

Min(a, b) == IF a < b THEN a ELSE b

\* history variables, when a step is no part of the scenario they follow
NotFresh == fresh' = FALSE /\ tries' = <<0, 0>> /\ takesOnly' = FALSE
TakeStep == fresh' = FALSE /\ tries' = <<0, 0>> /\ takesOnly' = takesOnly
NoTrip == rt' = NoRT
Disarm == handoff' = NoHandoff
KeepHandoff(t) ==
    handoff' = IF (handoff.armed \/ handoff.behind \/ handoff.raced) /\ handoff.task = t
               THEN handoff ELSE NoHandoff
\* a try_take that runs between the drop and the waiter's next poll
RaceHandoff ==
    handoff' = IF handoff.armed \/ handoff.raced
               THEN [handoff EXCEPT !.armed = FALSE, !.raced = TRUE] ELSE NoHandoff

Init ==
    /\ size \in 0..MaxInst
    /\ objects = NewObjects(size)
    /\ pending = <<>>
    /\ lock = Free
    /\ pc = [t \in Tasks |-> "idle"]
    /\ guards = [i \in Inst |-> 0]
    /\ releases = [i \in Inst |-> 0]
    /\ borrowed = 0
    /\ fbLive = {}
    /\ last = NoRet
    /\ fresh = TRUE
    /\ tries = <<0, 0>>
    /\ rt = NoRT
    /\ handoff = NoHandoff
    /\ takesOnly = TRUE

\* ---- Pool::take and PoolFuture::poll ----------------------------------

\* Pool::take: builds the future; the task awaiting it is scheduled for a poll
Take(t) ==
    /\ pc[t] = "idle"
    /\ Len(pending) + Cardinality({u \in Tasks : pc[u] \in {"scheduled", "polling"}})
           < MaxPending
    /\ pc' = [pc EXCEPT ![t] = "scheduled"]
    /\ TakeStep /\ NoTrip /\ Disarm
    /\ last' = NoRet
    /\ UNCHANGED <<size, objects, pending, lock, guards, releases, borrowed, fbLive>>

\* poll, line 43: try_lock; on Err the poll returns Pending (line 54) and no
\* waker is stored anywhere
\* (variant: the waker is pushed to pending on the Err branch too)
PollLockRegister(t) ==
    /\ pc[t] = "scheduled"
    /\ IF TryLockOk
       THEN /\ lock' = HeldByTask(t)
            /\ pc' = [pc EXCEPT ![t] = "polling"]
            /\ last' = NoRet
            /\ pending' = pending
       ELSE /\ lock' = lock
            /\ pc' = [pc EXCEPT ![t] = "suspended"]
            /\ last' = Ret("take", t, None)
            /\ pending' = Append(pending, t)
    /\ TakeStep /\ NoTrip /\ KeepHandoff(t)
    /\ UNCHANGED <<size, objects, guards, releases, borrowed, fbLive>>
PollLock(t) ==
    /\ pc[t] = "scheduled"
    /\ IF TryLockOk
       THEN /\ lock' = HeldByTask(t)
            /\ pc' = [pc EXCEPT ![t] = "polling"]
            /\ last' = NoRet
       ELSE /\ lock' = lock
            /\ pc' = [pc EXCEPT ![t] = "suspended"]
            /\ last' = Ret("take", t, None)
    /\ TakeStep /\ NoTrip /\ KeepHandoff(t)
    /\ UNCHANGED <<size, objects, pending, guards, releases, borrowed, fbLive>>

\* poll, lines 44-52, under the lock; the MutexGuard is dropped on return
PollBody(t) ==
    /\ pc[t] = "polling"
    /\ lock = HeldByTask(t)
    /\ IF objects = <<>>
       THEN /\ pending' = PushBack(pending, t)
            /\ pc' = [pc EXCEPT ![t] = "suspended"]
            /\ last' = Ret("take", t, None)
            /\ rt' = NoRT
            /\ UNCHANGED <<objects, guards>>
       ELSE /\ objects' = Pop(objects).rest
            /\ guards' = [guards EXCEPT ![Pop(objects).value] = @ + 1]
            /\ pc' = [pc EXCEPT ![t] = "idle"]
            /\ last' = Ret("take", t, Pop(objects).value)
            /\ rt' = [stage |-> "held", before |-> objects, inst |-> Pop(objects).value]
            /\ pending' = pending
    /\ lock' = Free
    /\ TakeStep /\ KeepHandoff(t)
    /\ UNCHANGED <<size, releases, borrowed, fbLive>>

\* the caller stops polling its suspended take and drops the future: nothing
\* in the code removes its waker from pending
Abandon(t) ==
    /\ pc[t] \in {"suspended", "scheduled"}
    /\ pc' = [pc EXCEPT ![t] = "idle"]
    /\ NotFresh /\ NoTrip /\ Disarm
    /\ last' = NoRet
    /\ UNCHANGED <<size, objects, pending, lock, guards, releases, borrowed, fbLive>>

\* ---- Pool::try_take -----------------------------------------------------

\* line 76: self.inner.try_lock().ok()?
TryLock(t) ==
    /\ pc[t] = "idle"
    /\ IF TryLockOk
       THEN /\ lock' = HeldByTask(t)
            /\ pc' = [pc EXCEPT ![t] = "try_locked"]
            /\ last' = NoRet
            /\ takesOnly' = FALSE
            /\ UNCHANGED <<fresh, tries>>
       ELSE /\ last' = Ret("try_take", t, None)
            /\ NotFresh
            /\ UNCHANGED <<lock, pc>>
    /\ NoTrip /\ RaceHandoff
    /\ UNCHANGED <<size, objects, pending, guards, releases, borrowed, fbLive>>

\* lines 77-83: inner.objects.pop().map(|content| PoolGuard { .. })
\* (variant: a try_take that finds objects empty leaves a waker in pending)
TryBodyRegister(t) ==
    /\ pc[t] = "try_locked"
    /\ lock = HeldByTask(t)
    /\ IF Pop(objects).value = None
       THEN /\ last' = Ret("try_take", t, None)
            /\ tries' = IF fresh THEN <<Min(tries[1] + 1, size + 1), tries[2]>> ELSE tries
            /\ rt' = NoRT
            /\ pending' = PushBack(pending, t)
            /\ UNCHANGED <<objects, guards>>
       ELSE /\ objects' = Pop(objects).rest
            /\ guards' = [guards EXCEPT ![Pop(objects).value] = @ + 1]
            /\ last' = Ret("try_take", t, Pop(objects).value)
            /\ tries' = IF fresh THEN <<Min(tries[1] + 1, size + 1), tries[2] + 1>> ELSE tries
            /\ rt' = [stage |-> "held", before |-> objects, inst |-> Pop(objects).value]
            /\ pending' = pending
    /\ lock' = Free
    /\ pc' = [pc EXCEPT ![t] = "idle"]
    /\ takesOnly' = FALSE
    /\ RaceHandoff
    /\ UNCHANGED <<size, releases, borrowed, fbLive, fresh>>
TryBody(t) ==
    /\ pc[t] = "try_locked"
    /\ lock = HeldByTask(t)
    /\ IF Pop(objects).value = None
       THEN /\ last' = Ret("try_take", t, None)
            /\ tries' = IF fresh THEN <<Min(tries[1] + 1, size + 1), tries[2]>> ELSE tries
            /\ rt' = NoRT
            /\ UNCHANGED <<objects, guards>>
       ELSE /\ objects' = Pop(objects).rest
            /\ guards' = [guards EXCEPT ![Pop(objects).value] = @ + 1]
            /\ last' = Ret("try_take", t, Pop(objects).value)
            /\ tries' = IF fresh THEN <<Min(tries[1] + 1, size + 1), tries[2] + 1>> ELSE tries
            /\ rt' = [stage |-> "held", before |-> objects, inst |-> Pop(objects).value]
    /\ lock' = Free
    /\ pc' = [pc EXCEPT ![t] = "idle"]
    /\ takesOnly' = FALSE
    /\ RaceHandoff
    /\ UNCHANGED <<size, pending, releases, borrowed, fbLive, fresh>>

\* ---- Pool::take_or / take_or_default ------------------------------------

\* line 87: try_take's try_lock; on failure the guard is built around value
\* (lines 87-90)
OrLock(t) ==
    /\ pc[t] = "idle"
    /\ size + borrowed + Cardinality({u \in Tasks : pc[u] = "or_locked"}) < MaxInst
    /\ IF TryLockOk
       THEN /\ lock' = HeldByTask(t)
            /\ pc' = [pc EXCEPT ![t] = "or_locked"]
            /\ last' = NoRet
            /\ UNCHANGED <<guards, borrowed, fbLive>>
       ELSE /\ guards' = [guards EXCEPT ![FallbackValue] = @ + 1]
            /\ borrowed' = borrowed + 1
            /\ fbLive' = fbLive \cup {FallbackValue}
            /\ last' = Ret("take_or", t, FallbackValue)
            /\ UNCHANGED <<lock, pc>>
    /\ NotFresh /\ NoTrip /\ Disarm
    /\ UNCHANGED <<size, objects, pending, releases>>

\* line 87: try_take's pop under the lock, then unwrap_or_else
\* (variant: the guard is always built around value)
OrBodyAlways(t) ==
    /\ pc[t] = "or_locked"
    /\ lock = HeldByTask(t)
    /\ guards' = [guards EXCEPT ![FallbackValue] = @ + 1]
    /\ borrowed' = borrowed + 1
    /\ fbLive' = fbLive \cup {FallbackValue}
    /\ last' = Ret("take_or", t, FallbackValue)
    /\ lock' = Free
    /\ pc' = [pc EXCEPT ![t] = "idle"]
    /\ NotFresh /\ NoTrip /\ Disarm
    /\ UNCHANGED <<size, objects, pending, releases>>
OrBody(t) ==
    /\ pc[t] = "or_locked"
    /\ lock = HeldByTask(t)
    /\ IF Pop(objects).value = None
       THEN /\ guards' = [guards EXCEPT ![FallbackValue] = @ + 1]
            /\ borrowed' = borrowed + 1
            /\ fbLive' = fbLive \cup {FallbackValue}
            /\ last' = Ret("take_or", t, FallbackValue)
            /\ rt' = NoRT
            /\ objects' = objects
       ELSE /\ objects' = Pop(objects).rest
            /\ guards' = [guards EXCEPT ![Pop(objects).value] = @ + 1]
            /\ last' = Ret("take_or", t, Pop(objects).value)
            /\ rt' = [stage |-> "held", before |-> objects, inst |-> Pop(objects).value]
            /\ UNCHANGED <<borrowed, fbLive>>
    /\ lock' = Free
    /\ pc' = [pc EXCEPT ![t] = "idle"]
    /\ NotFresh /\ Disarm
    /\ UNCHANGED <<size, pending, releases>>

\* ---- PoolGuard::drop and the release task it spawns ---------------------

\* exactly one take is suspended, registered against an empty pool, and
\* nothing else is in progress
LoneWaiter(t) ==
    /\ pc[t] = "suspended"
    /\ pending = <<t>>
    /\ objects = <<>>
    /\ lock = Free
    /\ \A u \in Tasks \ {t} : pc[u] = "idle"
    /\ \A j \in Inst : releases[j] = 0

\* a take is suspended with its token second in pending, behind the token of
\* a take that was abandoned, and nothing else is in progress
BehindAbandoned(t) ==
    /\ pc[t] = "suspended"
    /\ Len(pending) = 2 /\ pending[2] = t /\ pending[1] # t
    /\ objects = <<>>
    /\ lock = Free
    /\ \A u \in Tasks \ {t} : pc[u] = "idle"
    /\ \A j \in Inst : releases[j] = 0

\* lines 29-31: mem::take the content, clone the Arc, tokio::spawn; the
\* drop returns without touching the lock
\* (variants: the content cloned and not taken out of the guard, and the
\* release task never spawned)
DropKeepGuard(i) ==
    /\ guards[i] > 0
    /\ releases' = [releases EXCEPT ![i] = @ + 1]
    /\ last' = NoRet
    /\ NotFresh /\ NoTrip /\ Disarm
    /\ UNCHANGED <<size, objects, pending, lock, pc, guards, borrowed, fbLive>>
DropNoSpawn(i) ==
    /\ guards[i] > 0
    /\ guards' = [guards EXCEPT ![i] = @ - 1]
    /\ fbLive' = fbLive \ {i}
    /\ last' = NoRet
    /\ NotFresh /\ NoTrip /\ Disarm
    /\ UNCHANGED <<size, objects, pending, lock, pc, releases, borrowed>>
\* (variant: drop locks the pool and pushes the content itself)
DropBlocking(i) ==
    /\ guards[i] > 0
    /\ lock = Free
    /\ guards' = [guards EXCEPT ![i] = @ - 1]
    /\ fbLive' = fbLive \ {i}
    /\ objects' = Push(objects, i)
    /\ pending' = PopFront(pending)
    /\ pc' = WakeFront(pc, pending)
    /\ last' = Dropped
    /\ NotFresh /\ NoTrip /\ Disarm
    /\ UNCHANGED <<size, lock, releases, borrowed>>
Drop(i) ==
    /\ guards[i] > 0
    /\ guards' = [guards EXCEPT ![i] = @ - 1]
    /\ releases' = [releases EXCEPT ![i] = @ + 1]
    /\ fbLive' = fbLive \ {i}
    /\ rt' = IF rt.stage = "held" /\ rt.inst = i
             THEN [rt EXCEPT !.stage = "dropped"] ELSE NoRT
    /\ handoff' = IF \E t \in Tasks : LoneWaiter(t)
                  THEN [armed |-> TRUE, behind |-> FALSE, raced |-> FALSE, inst |-> i,
                        task |-> CHOOSE t \in Tasks : LoneWaiter(t)]
                  ELSE IF \E t \in Tasks : BehindAbandoned(t)
                  THEN [armed |-> FALSE, behind |-> TRUE, raced |-> FALSE, inst |-> i,
                        task |-> CHOOSE t \in Tasks : BehindAbandoned(t)]
                  ELSE NoHandoff
    /\ NotFresh
    /\ last' = Dropped
    /\ UNCHANGED <<size, objects, pending, lock, pc, borrowed>>

\* lines 32-34: inner.lock().await resolves, and under the lock the task
\* pushes the content, pops the front waker and wakes it.  Nothing reads
\* objects or pending while the lock is held, so the three lines are one step.
RelRun(i) ==
    /\ releases[i] > 0
    /\ lock = Free
    /\ releases' = [releases EXCEPT ![i] = @ - 1]
    /\ objects' = Push(objects, i)
    /\ pending' = PopFront(pending)
    /\ pc' = WakeFront(pc, pending)
    /\ lock' = ReleaseDone
    /\ rt' = IF rt.stage = "dropped" /\ rt.inst = i
             THEN [rt EXCEPT !.stage = "released"] ELSE NoRT
    /\ NotFresh
    /\ last' = NoRet
    /\ UNCHANGED <<size, guards, borrowed, fbLive, handoff>>

\* line 35: the async block ends and its MutexGuard is dropped
RelUnlock ==
    /\ lock = ReleaseDone
    /\ lock' = Free
    /\ NotFresh
    /\ last' = NoRet
    /\ UNCHANGED <<size, objects, pending, pc, guards, releases, borrowed, fbLive,
                   rt, handoff>>

Next ==
    \/ \E t \in Tasks : Take(t)
    \/ \E t \in Tasks : PollLock(t)
    \/ \E t \in Tasks : PollBody(t)
    \/ \E t \in Tasks : Abandon(t)
    \/ \E t \in Tasks : TryLock(t)
    \/ \E t \in Tasks : TryBody(t)
    \/ \E t \in Tasks : OrLock(t)
    \/ \E t \in Tasks : OrBody(t)
    \/ \E i \in Inst : Drop(i)
    \/ \E i \in Inst : RelRun(i)
    \/ RelUnlock

Spec == Init /\ [][Next]_vars

\* ---- C1 --------------------------------------------------------------------

\* C1, as stated: in every reachable state |objects| + live guards equals the
\* instances built by Pool::new plus those moved in by fallback acquisition.
C1_Stated == Len(objects) + Live = size + borrowed

\* C1, amended: in every reachable state |objects| + live guards + instances
\* carried by release tasks that have not pushed yet equals the instances
\* built by Pool::new plus those moved in by fallback acquisition.
C1_Conservation == Len(objects) + Live + InFlight = size + borrowed

\* a guard is live, another instance is on its way back, a value was moved in
C1_Witness == Live > 0 /\ InFlight > 0 /\ borrowed > 0

\* ---- C2 --------------------------------------------------------------------

\* every guard has been dropped, every release task has run to its end, and
\* no task is between a call and its return
Settled ==
    /\ lock = Free
    /\ Live = 0
    /\ InFlight = 0
    /\ \A t \in Tasks : pc[t] \in {"idle", "suspended"}

\* C2, as the final result a finite run shows: once every held guard has been
\* dropped and every spawned release task has run, with instances free in
\* objects, no take that was not abandoned is still suspended; this with
\* several waiters and also for a take whose poll found the lock contended.
C2_TakeCompletes ==
    (Settled /\ objects # <<>>) => \A t \in Tasks : pc[t] # "suspended"

\* ---- C3 --------------------------------------------------------------------

\* C3, as the final result a finite run shows: a guard holding instance i was
\* dropped while exactly one take was suspended against an empty objects and
\* nothing else touched the pool; once the release task has run to its end
\* and the take is not about to be polled, the take has completed and its
\* guard wraps i.
C3_HandoffCompletes ==
    ( /\ handoff.armed
      /\ lock = Free
      /\ InFlight = 0
      /\ pc[handoff.task] \notin {"scheduled", "polling"} )
    => (pc[handoff.task] = "idle" /\ guards[handoff.inst] = 1)

\* ---- C4 --------------------------------------------------------------------

\* C4: for every N = size, while nothing but try_take calls of one task at a
\* time has run since Pool::new and no guard was dropped, the k-th call
\* returned a guard exactly when k <= N: the first N succeed, the (N+1)-th
\* returns no result.
C4_FirstNSucceed ==
    fresh =>
        /\ tries[2] = Min(tries[1], size)
        /\ last.op = "try_take" => ((last.res # None) <=> (tries[1] <= size))

\* the (N+1)-th call, after N = 2 successes, has just returned no result
C4_Witness ==
    fresh /\ size = 2 /\ tries = <<3, 2>> /\ last.op = "try_take" /\ last.res = None

\* ---- C5 --------------------------------------------------------------------

\* C5, as stated: the number of live guards is at most size plus the number
\* of fallback-borrowed instances whose (fallback) guard is not yet released.
C5_Stated == Live <= size + Cardinality(fbLive)

\* C5, amended: the number of live guards is at most size plus the number of
\* fallback-borrowed instances that are the content of a live guard, be it
\* the guard take_or built or a later guard that took the instance out of
\* objects after its release.
C5_LiveBound ==
    Live <= size + Cardinality({i \in Inst : i > size /\ guards[i] > 0})

\* more guards are live than size, and none of them was built by take_or:
\* a fallback value went through objects and was acquired again
C5_Witness == Live > size /\ borrowed > 0 /\ fbLive = {} /\ size > 0

\* ---- C6 --------------------------------------------------------------------

\* C6: no instance is the content of two live guards, and no instance is in
\* objects while it is the content of a live guard (nor twice in objects).
C6_Exclusive == \A i \in Inst : guards[i] + Occurs(objects, i) <= 1

\* one instance is held by a guard while another is free, after a release
C6_Witness ==
    \E i, j \in Inst : i # j /\ guards[i] = 1 /\ Occurs(objects, j) = 1 /\ ~fresh

\* ---- C7 --------------------------------------------------------------------

\* C7: a take_or(value) that met an empty objects has returned, in that very
\* call, a guard wrapping value, and the pool's instance count is one greater
\* than before the call; the count never falls below size plus the values
\* moved in, and every value moved in stays among the pool's instances in
\* exactly one place: once its guard is dropped and its release task has
\* run, that place is objects or a later guard.
C7_FallbackGrows ==
    /\ (last.op = "take_or" /\ last.empty)
           => /\ last.res = size + borrowed
              /\ guards[last.res] = 1
              /\ Total = last.total + 1
    /\ Total >= size + borrowed
    /\ \A i \in (size + 1)..(size + borrowed) : Where(i) = 1

\* the value a take_or moved in has been released into objects
C7_Witness == borrowed > 0 /\ Occurs(objects, size + 1) = 1 /\ Total = size + borrowed

\* ---- C8 --------------------------------------------------------------------

\* C8: a guard was acquired from objects, dropped, and its release task has
\* pushed, with no other operation in between: the same instance is back in
\* objects, exactly once (one push), objects holds the instances it held
\* before the acquisition, and the number of free instances is the same.
C8_RoundTrip ==
    rt.stage = "released" =>
        /\ Occurs(objects, rt.inst) = 1
        /\ Len(objects) = Len(rt.before)
        /\ \A i \in Inst : Occurs(objects, i) = Occurs(rt.before, i)

\* a round trip from a pool with two free instances has completed
C8_Witness == rt.stage = "released" /\ Len(rt.before) = 2

\* ---- C9 --------------------------------------------------------------------

\* C9: a try_take call returns no result exactly when the lock was held by
\* someone else at its try_lock or objects was empty at its pop.
C9_TryTakeNone ==
    last.op = "try_take" => ((last.res = None) <=> (last.contended \/ last.empty))

\* try_take has just returned no result on a contended pool with a free instance
C9_WitnessContended ==
    last.op = "try_take" /\ last.res = None /\ last.contended /\ ~last.empty

\* ---- C10 -------------------------------------------------------------------

\* C10: in a pool built with size 0, while no fallback borrowing has occurred,
\* no poll of take and no try_take returns a guard, and no guard is live.
C10_SizeZero ==
    (size = 0 /\ borrowed = 0) =>
        /\ Live = 0
        /\ last.op \in {"take", "try_take"} => last.res = None

\* on a size-0 pool without borrowing, a take is suspended and a try_take has
\* just returned no result
C10_Witness ==
    /\ size = 0 /\ borrowed = 0
    /\ \E t \in Tasks : pc[t] = "suspended" /\ Occurs(pending, t) = 1
    /\ last.op = "try_take"

\* ---- C11 ------------------------------------------------------------------

\* C11: on a pool built with two instances on which only take calls have
\* run, every poll of a take that finds an instance in objects returns a
\* guard (the take completes on that poll, it does not suspend), and two
\* guards held at once are around the two distinct instances
C11_BothComplete ==
    (takesOnly /\ size = 2) =>
        /\ (last.op = "take" /\ ~last.empty) => last.res # None
        /\ \A t \in Tasks : pc[t] = "suspended" => objects = <<>>
        /\ Live = 2 => (guards[1] = 1 /\ guards[2] = 1)

\* ---- C12 ------------------------------------------------------------------

\* C12: a release task's step takes the lock, appends its instance to
\* objects and, when pending is not empty, removes exactly its head and wakes
\* that token and no other; a take registers at the tail of pending, so
\* tokens are woken in the order they were registered
C12_ReleaseWakesOldest ==
    [][/\ \A i \in Inst : releases'[i] < releases[i] =>
            /\ lock = Free /\ lock' = ReleaseDone
            /\ objects' = Append(objects, i)
            /\ IF pending = <<>>
               THEN pending' = <<>> /\ pc' = pc
               ELSE /\ pending' = Tail(pending)
                    /\ pc[Head(pending)] = "suspended" => pc'[Head(pending)] = "scheduled"
                    /\ \A t \in Tasks : pc'[t] # pc[t] =>
                           (t = Head(pending) /\ pc[t] = "suspended" /\ pc'[t] = "scheduled")
       /\ \A t \in Tasks : (pc[t] = "polling" /\ pc'[t] = "suspended") =>
            pending' = Append(pending, t)]_vars

\* a release task has just woken task 1, the older of two registered tokens,
\* and left task 2's token in pending
C12_Witness ==
    /\ lock = ReleaseDone
    /\ pending = <<2>>
    /\ pc[1] = "scheduled" /\ pc[2] = "suspended"
    /\ objects # <<>>

\* ---- C13 ------------------------------------------------------------------

\* C13: a guard is dropped while a take is suspended with its token behind
\* the token of an abandoned take; once the release task has run to its end
\* and the instance is free, the suspended take has been woken (it is not
\* still suspended)
C13_AbandonHarmless ==
    (handoff.behind /\ lock = Free /\ InFlight = 0) =>
        pc[handoff.task] # "suspended"

\* ---- C14 ------------------------------------------------------------------

\* C14: a poll of a take made while the lock is held returns Pending, and
\* leaves objects, pending, the lock and the guards as they were
C14_ContendedPollNoEffect ==
    [][\A t \in Tasks :
          (pc[t] = "scheduled" /\ lock # Free /\ pc'[t] \notin {"scheduled", "idle"}) =>
            /\ pc'[t] = "suspended"
            /\ last'.op = "take" /\ last'.task = t /\ last'.res = None
            /\ objects' = objects
            /\ pending' = pending
            /\ lock' = lock
            /\ guards' = guards]_vars

\* a take has just been polled with the lock held while objects held an
\* instance: it is suspended and its token is not in pending
C14_Witness ==
    /\ last.op = "take" /\ last.contended /\ last.res = None
    /\ pc[last.task] = "suspended"
    /\ Occurs(pending, last.task) = 0
    /\ objects # <<>>

\* ---- C15 ------------------------------------------------------------------

C16_Stated ==
    /\ Total > last.total => (last.op = "take_or" /\ last.empty)
    /\ (last.op = "take_or" /\ ~last.empty) => Total = last.total

\* C16, amended: the instance count grows only in a take_or whose try_take
\* gave nothing, because objects was empty or because the lock was held, and
\* then by the one supplied value; a take_or that got the lock and found an
\* instance returns that pooled instance and leaves the count as it was
C16_FallbackOnFailure ==
    /\ Total >= last.total
    /\ Total > last.total =>
          /\ last.op = "take_or"
          /\ last.empty \/ last.contended
          /\ Total = last.total + 1
          /\ last.res = size + borrowed /\ guards[last.res] = 1
    /\ last.op = "take_or" =>
          IF last.empty \/ last.contended
          THEN Total = last.total + 1
          ELSE /\ Total = last.total
               /\ guards[last.res] = 1 /\ Occurs(objects, last.res) = 0

\* a take_or has just built its guard around the supplied value because the
\* lock was held, while objects held an instance
C16_Witness ==
    /\ last.op = "take_or" /\ last.contended /\ ~last.empty
    /\ Total = last.total + 1
    /\ objects # <<>>

\* ---- C17 ------------------------------------------------------------------

\* C17: try_take makes one try_lock: from idle it either returns None at
\* once (lock held) or holds the lock and returns on its next step; no step
\* of it changes pending or suspends the caller, a step that returns None
\* leaves objects unchanged, and a step that returns a guard pops one instance
C17_TryTakeFrame ==
    [][\A t \in Tasks :
          /\ (pc[t] = "idle" /\ pc'[t] = "try_locked") =>
                /\ lock = Free /\ lock' = HeldByTask(t)
                /\ pending' = pending /\ objects' = objects
          /\ (pc[t] = "try_locked" /\ pc'[t] # pc[t]) =>
                /\ pc'[t] = "idle" /\ last'.op = "try_take" /\ last'.task = t
                /\ lock' = Free
          /\ (last'.op = "try_take" /\ last'.task = t) =>
                /\ pending' = pending
                /\ pc'[t] = "idle"
                /\ last'.res = None => (objects' = objects /\ guards' = guards)
                /\ last'.res # None =>
                      /\ Len(objects') = Len(objects) - 1
                      /\ guards'[last'.res] = guards[last'.res] + 1]_vars

\* a try_take has just returned None to a task while another task's take is
\* suspended with its token in pending: the caller is idle, not registered
C17_Witness ==
    /\ last.op = "try_take" /\ last.res = None
    /\ pc[last.task] = "idle"
    /\ Occurs(pending, last.task) = 0
    /\ pending # <<>>

\* ---- C18 ------------------------------------------------------------------

\* C18: the step that drops a guard moves the instance into a spawned
\* release task and changes nothing else, whoever holds the lock: objects,
\* pending, the lock and every task stay as they were; an instance enters
\* objects only in a later step, in which its release task takes the free lock
C18_DropNeverBlocks ==
    [][\A i \in Inst :
          /\ guards'[i] < guards[i] =>
                /\ releases'[i] = releases[i] + 1
                /\ objects' = objects /\ pending' = pending
                /\ lock' = lock /\ pc' = pc
                /\ last'.op = "drop" /\ last'.locked = (lock # Free)
          /\ Occurs(objects', i) > Occurs(objects, i) =>
                /\ releases[i] > 0 /\ releases'[i] = releases[i] - 1
                /\ guards' = guards
                /\ lock = Free /\ lock' = ReleaseDone]_vars

\* a guard has just been dropped while another task held the pool lock: the
\* drop is over, the lock is still held, the instance is with its release task
C18_Witness ==
    /\ last.op = "drop" /\ last.locked
    /\ \E t \in Tasks : lock = HeldByTask(t)
    /\ InFlight > 0

\* ---- C19 ------------------------------------------------------------------

\* C19: a release puts its instance at the end of objects, and an
\* acquisition (a poll of take, try_take, or take_or when it gets a pooled
\* instance) takes the instance at the end of objects and leaves the others
\* in place: acquisitions return instances in the reverse of the order in
\* which releases pushed them
C19_StackOrder ==
    [][\A i \in Inst :
          /\ (guards'[i] > guards[i] /\ Len(objects') < Len(objects)) =>
                /\ objects # <<>> /\ i = objects[Len(objects)]
                /\ objects' = SubSeq(objects, 1, Len(objects) - 1)
                /\ last'.res = i
          /\ releases'[i] < releases[i] =>
                /\ objects' # <<>> /\ objects'[Len(objects')] = i
                /\ SubSeq(objects', 1, Len(objects') - 1) = objects]_vars

\* out of a pool built as [1, 2], instance 2 was pushed back before instance
\* 1, and an acquisition has just returned 1, the later of the two
C19_Witness ==
    /\ size = 2 /\ borrowed = 0
    /\ last.op \in {"take", "try_take"} /\ last.res = 1
    /\ objects = <<2>>

\* ---- C20 ------------------------------------------------------------------

\* C20: each of the size instances Pool::new built and of the values moved
\* in by take_or is in exactly one place (objects, a live guard, or a release
\* task that has not pushed yet) and no other instance is anywhere, so the
\* three together count size + borrowed; no step lowers that count
C20_Conservation ==
    /\ \A i \in Inst : Where(i) = IF i <= size + borrowed THEN 1 ELSE 0
    /\ Len(objects) + Count(guards) + Count(releases) = size + borrowed
    /\ Total >= last.total

\* a pool built with one instance and grown by one take_or, with both
\* instances carried by release tasks that have not pushed yet
C20_Witness ==
    /\ size = 1 /\ borrowed = 1
    /\ releases[1] = 1 /\ releases[2] = 1
    /\ objects = <<>> /\ Live = 0

====
